---- MODULE Spec2Model ----
(***************************************************************************)
(* A model of quantulum's parser (src/quantulum/parser.py) and of the      *)
(* classes it builds (src/quantulum/classes.py).                           *)
(*                                                                         *)
(* Conventions.  A text is a sequence of one-character strings; the double *)
(* quote and the characters outside ASCII are named by their code point    *)
(* ("U+0022").  Spans and indices are Python's: 0-based, half-open;        *)
(* PySlice is text[a:b].  A float of integral value is modelled by that    *)
(* integer; any other value is kept as whole, numerator and denominator;   *)
(* str(float) is FloatStr, which writes the digits and ".0".  The grammar  *)
(* (regex.py) and the knowledge base (load.py) are not part of the sources *)
(* at hand: REG_TXT and REG_DIM are modelled by a lexicon of input         *)
(* fragments, each carrying the hits the patterns yield on it, and the     *)
(* knowledge base by small tables.                                         *)
(*                                                                         *)
(* Specifications.  SpecUnit: one call of get_unit, pass by pass.          *)
(* SpecEntity: get_entity_from_dimensions on a dimension list and on a     *)
(* reordering of it.  SpecSpell: the conversion loop of                    *)
(* extract_spellout_values on one cardinal phrase.  SpecSubstitute: one    *)
(* call of substitute_values.  SpecValues: one call of get_values on a     *)
(* numeric literal.  Spec: one call of inline_parse, which calls parse, on *)
(* a text of the lexicon.                                                  *)
(***************************************************************************)
EXTENDS Integers, Sequences, FiniteSets, TLC

VARIABLES
    \* ---- get_unit (one call) ----
    gu_item,        \* the regex hit: group number -> group
    gu_pos,         \* position in sorted(group_units + group_operators)
    gu_dimensions,  \* dimensions built so far
    gu_slash,       \* the slash flag
    gu_unit,        \* the returned unit (NoUnit while running)
    gu_pc,          \* "idle" | "loop" | "done"
    \* ---- get_entity_from_dimensions (two calls) ----
    en_first,       \* the dimension list of the first call
    en_second,      \* the dimension list of the second call
    en_results,     \* the entities returned so far
    en_pc,          \* "idle" | "first" | "second" | "done"
    \* ---- the conversion loop of extract_spellout_values (one phrase) ----
    sp_tokens,      \* surface.split()
    sp_number,      \* the number the phrase was written for
    sp_value,       \* result + curr
    sp_pc,          \* "idle" | "call" | "done"
    \* ---- substitute_values (one call) ----
    sv_text,        \* the text given
    sv_values,      \* the replacement records given
    sv_final,       \* final_text
    sv_shifts,      \* shifts
    sv_pc,          \* "idle" | "call" | "done"
    \* ---- get_values (one call) ----
    gv_kind,        \* how the literal given was written: "range" |
                    \* "uncertainty" | "fraction" | "single"
    gv_parts,       \* the numerals and the separator it was written from
    gv_value,       \* item.group(2), the literal given
    gv_result,      \* what the call gave
    gv_pc,          \* "idle" | "call" | "done"
    \* ---- parse and inline_parse (one call) ----
    pa_segs,        \* the fragments the text given is made of
    pa_orig_text,   \* orig_text, the text given
    pa_text,        \* text, after clean_text and substitute_values
    pa_shifts,      \* shifts, the table of substitute_values
    pa_items,       \* the hits of REG_DIM.finditer(text)
    pa_item_no,     \* the hit the loop of parse is at
    pa_values,      \* the local variable values of parse
    pa_uncert,      \* the local variable uncert of parse: <<>> is None
    pa_uncert_bound, \* whether uncert has been assigned
    pa_quantities,  \* quantities, the result list
    pa_origin,      \* for each quantity, the number of its hit
    pa_failed,      \* the hits on which get_values raised ValueError
    il_text,        \* the local variable text of inline_parse
    il_shift,       \* the local variable shift of inline_parse
    il_no,          \* the quantity the loop of inline_parse is at
    pa_pc,          \* "idle" | "start" | "loop" | "returned" | "raised" |
                    \* "inlined"
    pa_verbose,     \* the argument verbose
    pa_level,       \* the local variable level of parse: NoLevel is unbound
    root_level,     \* root.level, the level of the root logger
    root_before     \* root.level when parse was called

gu_vars == <<gu_item, gu_pos, gu_dimensions, gu_slash, gu_unit, gu_pc>>
en_vars == <<en_first, en_second, en_results, en_pc>>
sp_vars == <<sp_tokens, sp_number, sp_value, sp_pc>>
sv_vars == <<sv_text, sv_values, sv_final, sv_shifts, sv_pc>>
gv_vars == <<gv_kind, gv_parts, gv_value, gv_result, gv_pc>>
pa_vars ==
    <<pa_segs, pa_orig_text, pa_text, pa_shifts, pa_items, pa_item_no,
      pa_values, pa_uncert, pa_uncert_bound, pa_quantities, pa_origin,
      pa_failed, il_text, il_shift, il_no, pa_pc, pa_verbose, pa_level,
      root_level, root_before>>

\* What the steps between entry and return leave alone
log_vars == <<pa_verbose, pa_level, root_level, root_before>>

vars == <<gu_vars, en_vars, sp_vars, sv_vars, gv_vars, pa_vars>>

\* What the steps of one function leave alone: the state of the others
gu_others == <<en_vars, sp_vars, sv_vars, gv_vars, pa_vars>>
en_others == <<gu_vars, sp_vars, sv_vars, gv_vars, pa_vars>>
sp_others == <<gu_vars, en_vars, sv_vars, gv_vars, pa_vars>>
sv_others == <<gu_vars, en_vars, sp_vars, gv_vars, pa_vars>>
gv_others == <<gu_vars, en_vars, sp_vars, sv_vars, pa_vars>>
pa_others == <<gu_vars, en_vars, sp_vars, sv_vars, gv_vars>>

-----------------------------------------------------------------------------
(* Sequences, Python slices                                                *)

Min(a, b) == IF a < b THEN a ELSE b
Max(a, b) == IF a > b THEN a ELSE b
Range(s) == {s[i] : i \in DOMAIN s}

\* Python's index normalisation for a slice bound: negative counts from the
\* end, and the result is clamped to 0..len.
PyIdx(n, len) == IF n < 0 THEN Max(n + len, 0) ELSE Min(n, len)

\* text[a:b]
PySlice(s, a, b) ==
    LET lo == PyIdx(a, Len(s))
        hi == PyIdx(b, Len(s))
    IN  IF hi <= lo THEN <<>> ELSE SubSeq(s, lo + 1, hi)

\* text[a:]
PyFrom(s, a) == PySlice(s, a, Len(s))

\* s.startswith(p), s.endswith(p)
StartsWith(s, p) == Len(p) <= Len(s) /\ SubSeq(s, 1, Len(p)) = p
EndsWith(s, p) ==
    Len(p) <= Len(s) /\ SubSeq(s, Len(s) - Len(p) + 1, Len(s)) = p

\* p occurs in s at 0-based offset i
OccursAt(s, p, i) ==
    i >= 0 /\ i + Len(p) <= Len(s) /\ SubSeq(s, i + 1, i + Len(p)) = p

\* s.find(p): the least offset of p in s, -1 when there is none
Find(s, p) ==
    LET hits == {i \in 0..Len(s) : OccursAt(s, p, i)}
    IN  IF hits = {} THEN -1 ELSE CHOOSE i \in hits : \A j \in hits : i <= j

RECURSIVE Concat(_)
Concat(ss) == IF ss = <<>> THEN <<>> ELSE Head(ss) \o Concat(Tail(ss))

-----------------------------------------------------------------------------
(* Characters                                                              *)

Digits == {"0", "1", "2", "3", "4", "5", "6", "7", "8", "9"}
Upper == {"A", "B", "E", "K", "M", "T"}
Lower == {"a", "b", "d", "e", "h", "i", "k", "l", "m", "n", "o", "r", "s",
          "t", "w", "x", "y"}
WordChars == Digits \cup Upper \cup Lower \cup {"_"}

\* str.lower() on one character
LowerChar(c) ==
    CASE c = "A" -> "a" [] c = "B" -> "b" [] c = "E" -> "e" [] c = "K" -> "k"
      [] c = "M" -> "m" [] c = "T" -> "t" [] OTHER -> c
LowerStr(s) == [i \in DOMAIN s |-> LowerChar(s[i])]

\* \b at offset i of s: exactly one side is a word character
IsWordAt(s, i) == i >= 0 /\ i < Len(s) /\ s[i + 1] \in WordChars
Boundary(s, i) == IsWordAt(s, i - 1) # IsWordAt(s, i)

DigitVal(c) ==
    CASE c = "0" -> 0 [] c = "1" -> 1 [] c = "2" -> 2 [] c = "3" -> 3
      [] c = "4" -> 4 [] c = "5" -> 5 [] c = "6" -> 6 [] c = "7" -> 7
      [] c = "8" -> 8 [] c = "9" -> 9
DigitChar(d) == <<"0", "1", "2", "3", "4", "5", "6", "7", "8", "9">>[d + 1]

-----------------------------------------------------------------------------
(* classes.py: Entity, Unit, Quantity                                      *)

\* Python's None for a name or a uri
None == "None"

\* c.Entity(name, dimensions, uri): __eq__ compares the three fields
Entity(name, dimensions, uri) ==
    [name |-> name, dimensions |-> dimensions, uri |-> uri]

\* c.Unit(name, entity, uri, dimensions); the surface and symbol lists of a
\* unit play no part in parsing once the grammar is compiled
Unit(name, entity, uri, dimensions) ==
    [name |-> name, entity |-> entity, uri |-> uri, dimensions |-> dimensions]

\* c.Quantity(value, unit, surface, span, uncertainty)
Quantity(value, unit, surface, span, uncertainty) ==
    [value |-> value, unit |-> unit, surface |-> surface, span |-> span,
     uncertainty |-> uncertainty]

\* one term of a dimension list: {'base': ..., 'power': ...}
Dim(base, power) == [base |-> base, power |-> power]

-----------------------------------------------------------------------------
(* The knowledge base (load.py), from its interface: names, surfaces,      *)
(* derived units and derived entities                                       *)

\* l.ENTITIES: base entities carry no dimensions, derived ones do
ENTITIES ==
    [currency |-> Entity("currency", <<>>, "Currency"),
     length |-> Entity("length", <<>>, "Length"),
     time |-> Entity("time", <<>>, "Time"),
     dimensionless |-> Entity("dimensionless", <<>>, "Dimensionless_quantity"),
     magnetic |-> Entity("magnetic", <<>>, "Magnetic_field"),
     information |-> Entity("information", <<>>, "Information"),
     mass |-> Entity("mass", <<>>, "Mass"),
     speed |-> Entity("speed", <<Dim("length", 1), Dim("time", -1)>>, "Speed")]

\* l.NAMES: every unit of the knowledge base has a dimension list of its own
\* name to the power 1 unless it is a compound
NAMES ==
    [dollar |-> Unit("dollar", ENTITIES.currency, "Dollar",
                     <<Dim("dollar", 1)>>),
     metre |-> Unit("metre", ENTITIES.length, "Metre", <<Dim("metre", 1)>>),
     second |-> Unit("second", ENTITIES.time, "Second",
                     <<Dim("second", 1)>>),
     inch |-> Unit("inch", ENTITIES.length, "Inch", <<Dim("inch", 1)>>),
     count |-> Unit("count", ENTITIES.dimensionless, "Count",
                    <<Dim("count", 1)>>),
     tesla |-> Unit("tesla", ENTITIES.magnetic, "Tesla",
                    <<Dim("tesla", 1)>>),
     byte |-> Unit("byte", ENTITIES.information, "Byte", <<Dim("byte", 1)>>),
     stone |-> Unit("stone", ENTITIES.mass, "Stone_(unit)",
                    <<Dim("stone", 1)>>),
     dimensionless |-> Unit("dimensionless", ENTITIES.dimensionless,
                            "Dimensionless_quantity",
                            <<Dim("dimensionless", 1)>>)]

\* l.UNITS: surface -> candidate units (the first one is taken).  "U+0022"
\* is the double quote, the inch symbol.
UNITS ==
    [x \in {"$", "dollar", "m", "s", "in", "U+0022", "time", "T", "B", "st"} |->
        CASE x \in {"$", "dollar"} -> <<NAMES.dollar>>
          [] x = "m" -> <<NAMES.metre>>
          [] x = "s" -> <<NAMES.second>>
          [] x \in {"in", "U+0022"} -> <<NAMES.inch>>
          [] x = "time" -> <<NAMES.count>>
          [] x = "T" -> <<NAMES.tesla>>
          [] x = "B" -> <<NAMES.byte>>
          [] x = "st" -> <<NAMES.stone>>]

\* l.get_key_from_dimensions: the list as a tuple of (base, power) pairs
get_key_from_dimensions(dimensions) ==
    [i \in DOMAIN dimensions |-> <<dimensions[i].base, dimensions[i].power>>]

\* l.DERIVED_UNI: key -> unit; every unit under its own plain key
DERIVED_UNI ==
    LET names == DOMAIN NAMES
        keys == {get_key_from_dimensions(NAMES[n].dimensions) : n \in names}
    IN  [k \in keys |-> NAMES[CHOOSE n \in names :
                            get_key_from_dimensions(NAMES[n].dimensions) = k]]

\* l.DERIVED_ENT: a defaultdict(list), key of the sorted dimensions -> the
\* entities with these dimensions
DERIVED_ENT(key) ==
    IF key = <<<<"length", 1>>, <<"time", -1>>>> THEN <<ENTITIES.speed>>
    ELSE <<>>

-----------------------------------------------------------------------------
(* Unit and entity resolution (classifier disabled: clf.USE_CLF is false)  *)

\* Alphabetical order of the entity names, for sorted(..., key=base)
NameOrder ==
    <<"currency", "dimensionless", "information", "length", "magnetic", "mass",
      "speed", "time">>
NameRank(n) == CHOOSE i \in DOMAIN NameOrder : NameOrder[i] = n

\* Insert d after every element whose key is <= its own (a stable sort)
RECURSIVE InsertByBase(_, _)
InsertByBase(sorted, d) ==
    IF sorted = <<>> THEN <<d>>
    ELSE IF NameRank(Head(sorted).base) <= NameRank(d.base)
         THEN <<Head(sorted)>> \o InsertByBase(Tail(sorted), d)
         ELSE <<d>> \o sorted

\* sorted(dimensions, key=lambda x: x['base'])
RECURSIVE SortedByBase(_)
SortedByBase(dimensions) ==
    IF dimensions = <<>> THEN <<>>
    ELSE InsertByBase(SortedByBase(SubSeq(dimensions, 1, Len(dimensions) - 1)),
                      dimensions[Len(dimensions)])

\* get_entity_from_dimensions: the entity of the sorted key, or a new entity
\* "unknown" holding new_dimensions (the list before sorting)
get_entity_from_dimensions(dimensions) ==
    LET new_dimensions ==
            [i \in DOMAIN dimensions |->
                Dim(NAMES[dimensions[i].base].entity.name,
                    dimensions[i].power)]
        final_dimensions == SortedByBase(new_dimensions)
        key == get_key_from_dimensions(final_dimensions)
    IN  IF DERIVED_ENT(key) # <<>> THEN DERIVED_ENT(key)[1]
        ELSE Entity("unknown", new_dimensions, None)

\* build_unit_name: one piece per dimension, separated by single spaces
UnitNamePiece(unit) ==
    LET power == IF unit.power < 0 THEN -unit.power ELSE unit.power
        per == IF unit.power < 0 THEN "per " ELSE ""
    IN  per \o (CASE power = 1 -> unit.base
                  [] power = 2 -> "square " \o unit.base
                  [] power = 3 -> "cubic " \o unit.base
                  [] power > 3 -> unit.base \o " to the " \o ToString(power)
                  [] OTHER -> "")

RECURSIVE build_unit_name(_)
build_unit_name(dimensions) ==
    IF dimensions = <<>> THEN ""
    ELSE IF Len(dimensions) = 1 THEN UnitNamePiece(dimensions[1])
    ELSE UnitNamePiece(dimensions[1]) \o " " \o build_unit_name(Tail(dimensions))

\* get_unit_from_dimensions: the derived unit of the key, or a new unit
get_unit_from_dimensions(dimensions) ==
    LET key == get_key_from_dimensions(dimensions)
    IN  IF key \in DOMAIN DERIVED_UNI THEN DERIVED_UNI[key]
        ELSE Unit(build_unit_name(dimensions),
                  get_entity_from_dimensions(dimensions), None, dimensions)

-----------------------------------------------------------------------------
(* get_unit and parse_unit                                                 *)

\* A capture group of a regex hit.  A unit group holds the unit's surface
\* (text) and the form of its power suffix: mark is "exp" (digits or
\* superscripts, exp their value), "cubed", "squared" or "none".  An
\* operator group holds the operator's text.
Group(text, mark, exp) ==
    [present |-> TRUE, text |-> text, mark |-> mark, exp |-> exp]
NoGroup == [present |-> FALSE, text |-> "", mark |-> "none", exp |-> 0]

group_units == <<1, 4, 6, 8, 10>>
group_operators == <<3, 5, 7, 9>>
\* sorted(group_units + group_operators)
OrderedGroups == <<1, 3, 4, 5, 6, 7, 8, 9, 10>>

\* any(i in item.group(group) for i in ['/', ' per '])
HasDivision(text) == text \in {"/", " per ", " / "}

\* The flag assigned at every operator group, also when it is already set
NextSlashReassigned(slash, op) == HasDivision(op.text)

\* get_unit, lines 259-260: elif not slash: slash = any(...)
NextSlash(slash, op) == IF ~slash THEN HasDivision(op.text) ELSE slash

\* parse_unit: the surface without its power suffix, and the power, negated
\* when slash is set
parse_unit(grp, slash) ==
    LET new_power ==
            CASE grp.mark = "exp" -> (IF slash THEN -1 * grp.exp ELSE grp.exp)
              [] grp.mark = "cubed" -> (IF slash THEN -3 ELSE 3)
              [] grp.mark = "squared" -> (IF slash THEN -2 ELSE 2)
              [] OTHER -> (IF slash THEN -1 ELSE 1)
    IN  [surface |-> grp.text, power |-> new_power]

\* One pass of the loop of get_unit over group number g
GroupStep(item, g, dimensions, slash) ==
    IF ~item[g].present THEN [dimensions |-> dimensions, slash |-> slash]
    ELSE IF g \in Range(group_units)
    THEN LET pu == parse_unit(item[g], slash)
             base == UNITS[pu.surface][1].name
         IN  [dimensions |-> dimensions \o <<Dim(base, pu.power)>>,
              slash |-> slash]
    ELSE [dimensions |-> dimensions, slash |-> NextSlash(slash, item[g])]

\* len(item_units) == 0
NoUnitGroups(item) == \A i \in DOMAIN group_units : ~item[group_units[i]].present

RECURSIVE GroupLoop(_, _, _, _)
GroupLoop(item, pos, dimensions, slash) ==
    IF pos > Len(OrderedGroups) THEN dimensions
    ELSE LET st == GroupStep(item, OrderedGroups[pos], dimensions, slash)
         IN  GroupLoop(item, pos + 1, st.dimensions, st.slash)

\* get_unit(item, text) as one call
get_unit(item) ==
    IF NoUnitGroups(item) THEN NAMES.dimensionless
    ELSE get_unit_from_dimensions(GroupLoop(item, 1, <<>>, FALSE))

-----------------------------------------------------------------------------
(* One call of get_unit, pass by pass                                      *)

\* The most units after the value in a modelled hit (the pattern has four
\* such slots: groups 4, 6, 8, 10)
MaxTerms == 2

UnitChoices ==
    {Group("m", "none", 0), Group("s", "squared", 0), Group("m", "cubed", 0),
     Group("s", "exp", 3), Group("s", "exp", -1)}
OperatorChoices ==
    {NoGroup, Group("/", "none", 0), Group(" per ", "none", 0),
     Group("*", "none", 0)}
PrefixChoices == {NoGroup, Group("$", "none", 0)}

\* The hit with the given prefix (group 1) and the given (operator, unit)
\* terms in groups (3, 4), (5, 6), ...
ItemOf(prefix, terms) ==
    [g \in Range(OrderedGroups) |->
        IF g = 1 THEN prefix
        ELSE LET k == (g - 1) \div 2
             IN  IF k > Len(terms) THEN NoGroup
                 ELSE IF g % 2 = 1 THEN terms[k][1] ELSE terms[k][2]]

UnitItems ==
    {ItemOf(p, t) : p \in PrefixChoices,
                    t \in UNION {[1..n -> OperatorChoices \X UnitChoices] :
                                    n \in 0..Min(MaxTerms, 4)}}

NoUnit == Unit(None, Entity(None, <<>>, None), None, <<>>)

gu_Init ==
    /\ gu_item \in UnitItems
    /\ gu_pos = 1
    /\ gu_dimensions = <<>>
    /\ gu_slash = FALSE
    /\ gu_unit = NoUnit
    /\ gu_pc = "loop"

gu_Off ==
    /\ gu_item = ItemOf(NoGroup, <<>>)
    /\ gu_pos = 1
    /\ gu_dimensions = <<>>
    /\ gu_slash = FALSE
    /\ gu_unit = NoUnit
    /\ gu_pc = "idle"

\* lines 245-246: no unit group at all
GuDimensionless ==
    /\ gu_pc = "loop" /\ gu_pos = 1 /\ NoUnitGroups(gu_item)
    /\ gu_unit' = NAMES.dimensionless
    /\ gu_pc' = "done"
    /\ UNCHANGED <<gu_item, gu_pos, gu_dimensions, gu_slash, gu_others>>

GuPass(g) ==
    LET st == GroupStep(gu_item, g, gu_dimensions, gu_slash)
    IN  /\ gu_dimensions' = st.dimensions
        /\ gu_slash' = st.slash
        /\ gu_pos' = gu_pos + 1
        /\ UNCHANGED <<gu_item, gu_unit, gu_pc, gu_others>>

GuLooping ==
    gu_pc = "loop" /\ ~NoUnitGroups(gu_item) /\ gu_pos <= Len(OrderedGroups)

\* lines 250-251: the group did not take part in the hit
GuSkip ==
    /\ GuLooping /\ ~gu_item[OrderedGroups[gu_pos]].present
    /\ GuPass(OrderedGroups[gu_pos])

\* lines 252-258: a unit group
GuUnitGroup ==
    /\ GuLooping /\ gu_item[OrderedGroups[gu_pos]].present
    /\ OrderedGroups[gu_pos] \in Range(group_units)
    /\ GuPass(OrderedGroups[gu_pos])

\* lines 259-260: an operator group
GuOperatorGroup ==
    /\ GuLooping /\ gu_item[OrderedGroups[gu_pos]].present
    /\ OrderedGroups[gu_pos] \in Range(group_operators)
    /\ GuPass(OrderedGroups[gu_pos])

\* line 262: the loop is over
GuReturn ==
    /\ gu_pc = "loop" /\ ~NoUnitGroups(gu_item)
    /\ gu_pos > Len(OrderedGroups)
    /\ gu_unit' = get_unit_from_dimensions(gu_dimensions)
    /\ gu_pc' = "done"
    /\ UNCHANGED <<gu_item, gu_pos, gu_dimensions, gu_slash, gu_others>>

gu_Next ==
    \/ GuDimensionless
    \/ GuSkip
    \/ GuUnitGroup
    \/ GuOperatorGroup
    \/ GuReturn

(* C9 *)
\* The groups passed so far, in order
PassedGroups == SubSeq(OrderedGroups, 1, gu_pos - 1)
IsUnitGroup(g) == g \in Range(group_units) /\ gu_item[g].present
IsDivisionGroup(g) ==
    g \in Range(group_operators) /\ gu_item[g].present
    /\ HasDivision(gu_item[g].text)
\* The power a unit group states by itself
StatedPower(grp) ==
    CASE grp.mark = "exp" -> grp.exp
      [] grp.mark = "cubed" -> 3
      [] grp.mark = "squared" -> 2
      [] OTHER -> 1
DivisionBefore(g) ==
    \E h \in Range(PassedGroups) : h < g /\ IsDivisionGroup(h)

\* C9: while get_unit runs, the slash flag is set exactly when a division
\* operator ('/' or ' per ') has been passed (so it starts false, is set at
\* the first division, never falls back and ignores other operators); the
\* k-th unit group passed has its stated power before the first division and
\* that power negated after it.
C9_ReciprocalComposition ==
    gu_pc \in {"loop", "done"} =>
        LET units == SelectSeq(PassedGroups, IsUnitGroup)
        IN  /\ gu_slash = (\E h \in Range(PassedGroups) : IsDivisionGroup(h))
            /\ (~NoUnitGroups(gu_item) => Len(gu_dimensions) = Len(units))
            /\ \A k \in DOMAIN gu_dimensions :
                  k <= Len(units) =>
                    gu_dimensions[k].power =
                        IF DivisionBefore(units[k])
                        THEN -StatedPower(gu_item[units[k]])
                        ELSE StatedPower(gu_item[units[k]])

\* "m per s squared" resolved to [(metre, +1), (second, -2)], with a
\* multiplication passed after the division
C9_Witness ==
    /\ gu_pc = "done"
    /\ gu_item[3].present /\ gu_item[3].text = " per "
    /\ gu_item[5].present /\ gu_item[5].text = "*"
    /\ gu_slash
    /\ gu_dimensions = <<Dim("dollar", 1), Dim("metre", -1), Dim("second", -2)>>

-----------------------------------------------------------------------------
(* Two calls of get_entity_from_dimensions, on a list and a permutation    *)

\* The longest dimension list of the two calls
MaxDims == 2

EntityBases == {"metre", "second", "dollar", "tesla", "inch"}
EntityPowers == {1, -1, 2}
DimLists ==
    UNION {[1..n -> {Dim(b, p) : b \in EntityBases, p \in EntityPowers}] :
              n \in 1..MaxDims}
Reorderings(d) ==
    {[i \in DOMAIN d |-> d[f[i]]] :
        f \in {g \in [DOMAIN d -> DOMAIN d] :
                  \A i, j \in DOMAIN d : g[i] = g[j] => i = j}}

en_Init ==
    /\ en_first \in DimLists
    /\ en_second \in Reorderings(en_first)
    /\ en_results = <<>>
    /\ en_pc = "first"

en_Off ==
    /\ en_first = <<>>
    /\ en_second = <<>>
    /\ en_results = <<>>
    /\ en_pc = "idle"

EnFirstCall ==
    /\ en_pc = "first"
    /\ en_results' = <<get_entity_from_dimensions(en_first)>>
    /\ en_pc' = "second"
    /\ UNCHANGED <<en_first, en_second, en_others>>

EnSecondCall ==
    /\ en_pc = "second"
    /\ en_results' = en_results \o <<get_entity_from_dimensions(en_second)>>
    /\ en_pc' = "done"
    /\ UNCHANGED <<en_first, en_second, en_others>>

en_Next == EnFirstCall \/ EnSecondCall

(* C10 *)
\* C10: get_entity_from_dimensions returns equal entities (Entity.__eq__:
\* the same name, dimensions and uri) for a dimension list and for any
\* permutation of it.
C10_OrderIndependent ==
    en_pc = "done" => en_results[1] = en_results[2]

-----------------------------------------------------------------------------
(* Spelled-out numbers: the number words (regex.py) and the conversion     *)
(* loop of extract_spellout_values                                         *)

\* A token of surface.split(): a digit literal, which float() parses, or a
\* word
Lit(v) == [lit |-> TRUE, value |-> v, word |-> ""]
Word(w) == [lit |-> FALSE, value |-> 0, word |-> w]

\* r.UNITS and r.TENS, as lists of words
UnitWords ==
    <<"zero", "one", "two", "three", "four", "five", "six", "seven", "eight",
      "nine", "ten", "eleven", "twelve", "thirteen", "fourteen", "fifteen",
      "sixteen", "seventeen", "eighteen", "nineteen">>
TensWords ==
    <<"twenty", "thirty", "forty", "fifty", "sixty", "seventy", "eighty",
      "ninety">>
\* r.SCALES
SCALES == <<"hundred", "thousand", "million", "billion">>

\* r.NUMWORDS: word -> (scale, increment)
NUMWORDS(w) ==
    IF w = "and" THEN <<1, 0>>
    ELSE IF \E i \in DOMAIN UnitWords : UnitWords[i] = w
    THEN <<1, (CHOOSE i \in DOMAIN UnitWords : UnitWords[i] = w) - 1>>
    ELSE IF \E i \in DOMAIN TensWords : TensWords[i] = w
    THEN <<1, ((CHOOSE i \in DOMAIN TensWords : TensWords[i] = w) + 1) * 10>>
    ELSE CASE w = "hundred" -> <<100, 0>>
           [] w = "thousand" -> <<1000, 0>>
           [] w = "million" -> <<1000000, 0>>
           [] w = "billion" -> <<1000000000, 0>>

\* lines 62-65: float(word) or, on ValueError, the number word
ScaleIncrement(token) ==
    IF token.lit THEN <<1, token.value>> ELSE NUMWORDS(token.word)

\* A flush at every scale word, 'hundred' included
FlushesAtHundred(scale) == scale >= 100

\* line 67: if scale > 100
Flushes(scale) == scale > 100

\* lines 60-72: the value of the phrase, result + curr
RECURSIVE SpelloutLoop(_, _, _)
SpelloutLoop(tokens, curr, result) ==
    IF tokens = <<>> THEN result + curr
    ELSE LET si == ScaleIncrement(Head(tokens))
             c == curr * si[1] + si[2]
         IN  IF Flushes(si[1]) THEN SpelloutLoop(Tail(tokens), 0, result + c)
             ELSE SpelloutLoop(Tail(tokens), c, result)

SpelloutValue(tokens) == SpelloutLoop(tokens, 0, 0)

-----------------------------------------------------------------------------
(* The conversion of one well-formed cardinal phrase                       *)

\* The largest number of millions of a modelled phrase
MaxMillions == 2

\* English for 1..99
Below100(n) ==
    IF n < 20 THEN <<Word(UnitWords[n + 1])>>
    ELSE <<Word(TensWords[(n \div 10) - 1])>>
         \o (IF n % 10 = 0 THEN <<>> ELSE <<Word(UnitWords[(n % 10) + 1])>>)

\* English for 1..999, with or without 'and' after 'hundred'
Below1000(n, and) ==
    IF n < 100 THEN Below100(n)
    ELSE <<Word(UnitWords[(n \div 100) + 1]), Word("hundred")>>
         \o (IF n % 100 = 0 THEN <<>>
             ELSE (IF and THEN <<Word("and")>> ELSE <<>>) \o Below100(n % 100))

\* A group of three digits before its scale word: in words or, when digits
\* is set, as a digit literal
GroupWords(n, and, digits) ==
    IF digits THEN <<Lit(n)>> ELSE Below1000(n, and)

\* English for m million t thousand u; the leading group may be a literal
Cardinal(m, t, u, and, digits) ==
    IF m = 0 /\ t = 0 /\ u = 0 THEN <<Word("zero")>>
    ELSE (IF m = 0 THEN <<>>
          ELSE GroupWords(m, and, digits) \o <<Word("million")>>)
         \o (IF t = 0 THEN <<>>
             ELSE GroupWords(t, and, digits /\ m = 0) \o <<Word("thousand")>>)
         \o (IF u = 0 THEN <<>>
             ELSE IF digits /\ m = 0 /\ t = 0 /\ u >= 100
             THEN <<Lit(u \div 100), Word("hundred")>>
                  \o (IF u % 100 = 0 THEN <<>>
                      ELSE (IF and THEN <<Word("and")>> ELSE <<>>)
                           \o Below100(u % 100))
             ELSE (IF and /\ u < 100 /\ (m > 0 \/ t > 0)
                   THEN <<Word("and")>> ELSE <<>>) \o Below1000(u, and))

ThousandParts == {0, 1, 12, 200, 999}

sp_Init ==
    \E m \in 0..MaxMillions, t \in ThousandParts, u \in 0..999,
       and \in BOOLEAN, digits \in BOOLEAN :
        /\ sp_tokens = Cardinal(m, t, u, and, digits)
        /\ sp_number = m * 1000000 + t * 1000 + u
        /\ sp_value = -1
        /\ sp_pc = "call"

sp_Off ==
    /\ sp_tokens = <<>>
    /\ sp_number = 0
    /\ sp_value = -1
    /\ sp_pc = "idle"

\* lines 60-72 on one surface
SpConvert ==
    /\ sp_pc = "call"
    /\ sp_value' = SpelloutValue(sp_tokens)
    /\ sp_pc' = "done"
    /\ UNCHANGED <<sp_tokens, sp_number, sp_others>>

sp_Next == SpConvert

(* C8 *)
\* C8: the conversion loop (curr = curr * scale + increment, a flush into
\* result when scale > 100, result + curr at the end) gives every
\* well-formed cardinal phrase up to MaxMillions million the number it
\* denotes, with or without 'and' and with a digit literal as leading token.
C8_SpelloutValue ==
    sp_pc = "done" => sp_value = sp_number

\* 'two hundred thousand' has given 200000: 'hundred' did not flush
C8_Witness ==
    /\ sp_pc = "done"
    /\ sp_tokens = <<Word("two"), Word("hundred"), Word("thousand")>>
    /\ sp_value = 200000

-----------------------------------------------------------------------------
(* substitute_values                                                       *)

\* A replacement record: {'old_surface', 'old_span', 'new_surface'}
Value(old_surface, old_span, new_surface) ==
    [old_surface |-> old_surface, old_span |-> old_span,
     new_surface |-> new_surface]

\* shifts is a defaultdict(int)
ShiftAt(shifts, i) == IF i \in DOMAIN shifts THEN shifts[i] ELSE 0

\* The shift recorded from the replacement's first character on
ShiftedFromFirst(first) == first

\* line 92: range(first + 1, len(final_text)) starts after the replacement's
\* first character
ShiftedFrom(first) == first + 1

\* lines 86-93: the loop over values[k..]
RECURSIVE SubstituteLoop(_, _, _, _, _)
SubstituteLoop(values, k, shift, final_text, shifts) ==
    IF k > Len(values) THEN [text |-> final_text, shifts |-> shifts]
    ELSE LET value == values[k]
             first == value.old_span[1] + shift
             second == value.old_span[2] + shift
             new_s == value.new_surface
             new_text == PySlice(final_text, 0, first) \o new_s
                         \o PyFrom(final_text, second)
             new_shift == shift + Len(new_s) - Len(value.old_surface)
             chars == ShiftedFrom(first)..(Len(new_text) - 1)
         IN  SubstituteLoop(values, k + 1, new_shift, new_text,
                 [i \in DOMAIN shifts \cup chars |->
                     IF i \in chars THEN new_shift ELSE shifts[i]])

\* substitute_values(text, values): final_text and shifts
substitute_values(text, values) ==
    SubstituteLoop(values, 1, 0, text, <<>>)

\* get_surface, line 276: the span of the text before substitution
real_span(shifts, span) ==
    <<span[1] - ShiftAt(shifts, span[1]),
      span[2] - ShiftAt(shifts, span[2] - 1)>>

-----------------------------------------------------------------------------
(* One call of substitute_values.  The characters of the text given are    *)
(* numbered 1, 2, ... and the k-th replacement string is made of -k, so    *)
(* that a character of the result tells where it comes from.               *)

\* The longest text and the most replacements of a modelled call
MaxText == 6
MaxValues == 2
\* The longest replacement string
MaxNewSurface == 4
\* The shortest replacement string: str() of a float has at least three
\* characters ('0.0'), a comma-grouped number without its commas at least four
MinNewSurface == 3

Numbered(n) == [i \in 1..n |-> i]
Filled(n, c) == [i \in 1..n |-> c]

\* Ascending, non-overlapping lists of up to MaxValues replacements of a
\* text of n characters, from offset lo on
RECURSIVE ValueLists(_, _, _)
ValueLists(n, lo, k) ==
    {<<>>} \cup
    (IF k > MaxValues THEN {}
     ELSE UNION {
            {<<Value(PySlice(Numbered(n), a, b), <<a, b>>, Filled(len, -k))>>
                \o rest : rest \in (IF a < b THEN ValueLists(n, b, k + 1)
                                    ELSE {})} :
            a \in lo..(n - 1), b \in (lo + 1)..n,
            len \in MinNewSurface..MaxNewSurface} )

sv_Init ==
    \E n \in 1..MaxText :
        /\ sv_text = Numbered(n)
        /\ sv_values \in ValueLists(n, 0, 1)
        /\ sv_final = <<>>
        /\ sv_shifts = <<>>
        /\ sv_pc = "call"

sv_Off ==
    /\ sv_text = <<>>
    /\ sv_values = <<>>
    /\ sv_final = <<>>
    /\ sv_shifts = <<>>
    /\ sv_pc = "idle"

SvSubstitute ==
    /\ sv_pc = "call"
    /\ LET r == substitute_values(sv_text, sv_values)
       IN  sv_final' = r.text /\ sv_shifts' = r.shifts
    /\ sv_pc' = "done"
    /\ UNCHANGED <<sv_text, sv_values, sv_others>>

sv_Next == SvSubstitute

(* C6 *)
\* The character at offset i of the result is the first (last) character of
\* a replacement string, or a character of the text given
Unreplaced(i) == sv_final[i + 1] > 0
FirstOfReplacement(i) ==
    sv_final[i + 1] < 0 /\ (i = 0 \/ sv_final[i] # sv_final[i + 1])
LastOfReplacement(i) ==
    sv_final[i + 1] < 0
    /\ (i = Len(sv_final) - 1 \/ sv_final[i + 2] # sv_final[i + 1])
\* Where the character at offset i of the result starts (ends) in the text
\* given: its own offset, or the old span of its replacement
StartBefore(i) ==
    IF Unreplaced(i) THEN sv_final[i + 1] - 1
    ELSE sv_values[-sv_final[i + 1]].old_span[1]
EndBefore(i) ==
    IF Unreplaced(i) THEN sv_final[i + 1]
    ELSE sv_values[-sv_final[i + 1]].old_span[2]

\* C6: after substitute_values, every span [s, e) of the result that starts
\* at a replacement's first character or in unreplaced text, and whose last
\* character is a replacement's last character or unreplaced, maps by
\* (s - shifts[s], e - shifts[e - 1]) to the span of the text given that
\* holds the same unreplaced characters and the whole old span of every
\* replacement inside.
C6_RoundTrip ==
    sv_pc = "done" =>
        \A s \in 0..(Len(sv_final) - 1), e \in 1..Len(sv_final) :
            (/\ s < e
             /\ (Unreplaced(s) \/ FirstOfReplacement(s))
             /\ (Unreplaced(e - 1) \/ LastOfReplacement(e - 1)))
            => real_span(sv_shifts, <<s, e>>) = <<StartBefore(s), EndBefore(e - 1)>>

\* Two replacements, both longer than what they replace, with text before
\* and after them; the whole result maps back to the whole text
C6_Witness ==
    /\ sv_pc = "done"
    /\ Len(sv_values) = 2
    /\ sv_values[1].old_span = <<1, 3>> /\ Len(sv_values[1].new_surface) = 4
    /\ sv_values[2].old_span = <<3, 4>> /\ Len(sv_values[2].new_surface) = 3
    /\ real_span(sv_shifts, <<0, 9>>) = <<0, 5>>

-----------------------------------------------------------------------------
(* clean_text                                                              *)

\* maps: the multiplication sign, the en dash and the minus sign
MapChar(c) ==
    CASE c = "U+00D7" -> "x" [] c = "U+2013" -> "-" [] c = "U+2212" -> "-"
      [] OTHER -> c

\* (?<=\w)'s\b|(?<=\w)s'(?!\w) matches at offset i
GenitiveAt(s, i) ==
    /\ i + 2 <= Len(s)
    /\ IsWordAt(s, i - 1)
    /\ \/ s[i + 1] = "'" /\ s[i + 2] = "s" /\ Boundary(s, i + 2)
       \/ s[i + 1] = "s" /\ s[i + 2] = "'" /\ ~IsWordAt(s, i + 2)

\* re.sub(..., '  ', text) from offset i on: leftmost matches, not overlapping
RECURSIVE GenitiveSub(_, _)
GenitiveSub(s, i) ==
    IF i >= Len(s) THEN <<>>
    ELSE IF GenitiveAt(s, i) THEN <<" ", " ">> \o GenitiveSub(s, i + 2)
    ELSE <<s[i + 1]>> \o GenitiveSub(s, i + 1)

clean_text(t) == GenitiveSub([i \in DOMAIN t |-> MapChar(t[i])], 0)

-----------------------------------------------------------------------------
(* Strings: split, join, float, str                                        *)

\* str.replace for one character
Replace(s, a, b) == [i \in DOMAIN s |-> IF s[i] = a THEN b ELSE s[i]]

\* The length of the first word of s, which begins with a non-space
WordEnd(s) ==
    IF \E i \in DOMAIN s : s[i] = " "
    THEN (CHOOSE i \in DOMAIN s :
            s[i] = " " /\ \A j \in 1..(i - 1) : s[j] # " ") - 1
    ELSE Len(s)

\* str.split(): the words between runs of spaces
RECURSIVE Split(_)
Split(s) ==
    IF s = <<>> THEN <<>>
    ELSE IF Head(s) = " " THEN Split(Tail(s))
    ELSE <<SubSeq(s, 1, WordEnd(s))>>
         \o Split(SubSeq(s, WordEnd(s) + 1, Len(s)))

\* ' '.join(words)
RECURSIVE JoinSpace(_)
JoinSpace(words) ==
    IF words = <<>> THEN <<>>
    ELSE IF Len(words) = 1 THEN words[1]
    ELSE words[1] \o <<" ">> \o JoinSpace(Tail(words))

\* str.split(sep)
RECURSIVE SplitOn(_, _)
SplitOn(s, sep) ==
    LET i == Find(s, sep)
    IN  IF i = -1 THEN <<s>>
        ELSE <<PySlice(s, 0, i)>> \o SplitOn(PyFrom(s, i + Len(sep)), sep)

\* str.strip()
RECURSIVE Strip(_)
Strip(s) ==
    IF s # <<>> /\ Head(s) = " " THEN Strip(Tail(s))
    ELSE IF s # <<>> /\ s[Len(s)] = " " THEN Strip(SubSeq(s, 1, Len(s) - 1))
    ELSE s

\* The characters of a word as one string, to look it up in a table
RECURSIVE Str(_)
Str(chars) == IF chars = <<>> THEN "" ELSE Head(chars) \o Str(Tail(chars))

IsDigits(s) == s # <<>> /\ \A i \in DOMAIN s : s[i] \in Digits

RECURSIVE DecimalValue(_)
DecimalValue(s) ==
    IF s = <<>> THEN 0
    ELSE DecimalValue(SubSeq(s, 1, Len(s) - 1)) * 10 + DigitVal(s[Len(s)])

RECURSIVE Pow10(_)
Pow10(k) == IF k = 0 THEN 1 ELSE 10 * Pow10(k - 1)

\* The float of mantissa * 10^(-places): the integer when the value is
\* integral, otherwise whole + num/den with whole the floor of the value
\* and den the least power of ten
RECURSIVE Scaled(_, _)
Scaled(mantissa, places) ==
    IF places <= 0 THEN mantissa * Pow10(-places)
    ELSE IF mantissa % 10 = 0 THEN Scaled(mantissa \div 10, places - 1)
    ELSE [whole |-> mantissa \div Pow10(places),
          num |-> mantissa % Pow10(places),
          den |-> Pow10(places)]

\* The digits after the point without the zeros that end them
RECURSIVE Significant(_)
Significant(frac) ==
    IF frac # <<>> /\ frac[Len(frac)] = "0"
    THEN Significant(SubSeq(frac, 1, Len(frac) - 1))
    ELSE frac

Signs == {"+", "-"}
Unsigned(s) == IF s # <<>> /\ s[1] \in Signs THEN Tail(s) ELSE s
IsNegative(s) == s # <<>> /\ s[1] = "-"

\* float(s) for a decimal numeral: spaces around it, an optional sign, digits
\* with an optional point, an optional exponent (e or E, an optional sign,
\* digits); anything else raises ValueError (ok is FALSE)
float(s) ==
    LET t == Unsigned(Strip(s))
        e == Find(LowerStr(t), <<"e">>)
        mant == IF e = -1 THEN t ELSE PySlice(t, 0, e)
        expo == IF e = -1 THEN <<"0">> ELSE PyFrom(t, e + 1)
        dot == Find(mant, <<".">>)
        whole == IF dot = -1 THEN mant ELSE PySlice(mant, 0, dot)
        frac == IF dot = -1 THEN <<>> ELSE PyFrom(mant, dot + 1)
        digits == whole \o Significant(frac)
        power == IF IsNegative(expo) THEN -DecimalValue(Unsigned(expo))
                 ELSE DecimalValue(Unsigned(expo))
        mantissa == IF IsNegative(Strip(s)) THEN -DecimalValue(digits)
                    ELSE DecimalValue(digits)
    IN  IF IsDigits(whole \o frac) /\ IsDigits(Unsigned(expo))
        THEN [ok |-> TRUE,
              value |-> Scaled(mantissa, Len(Significant(frac)) - power)]
        ELSE [ok |-> FALSE, value |-> 0]

RECURSIVE Decimal(_)
Decimal(n) ==
    IF n < 10 THEN <<DigitChar(n)>>
    ELSE Decimal(n \div 10) \o <<DigitChar(n % 10)>>

\* str(x) for a float x of integral value
FloatStr(n) == Decimal(n) \o <<".", "0">>

-----------------------------------------------------------------------------
(* clean_surface                                                           *)

no_start == << <<"a", "n", "d">>, <<" ">> >>
no_end == << <<" ", "a", "n", "d">>, <<" ">> >>

\* lines 30-33
StripStart(st, word) ==
    IF StartsWith(LowerStr(st.surface), word)
    THEN [surface |-> PyFrom(st.surface, Len(word)),
          span |-> <<st.span[1] + Len(word), st.span[2]>>,
          found |-> TRUE]
    ELSE st

\* lines 35-38
StripEnd(st, word) ==
    IF EndsWith(LowerStr(st.surface), word)
    THEN [surface |-> PySlice(st.surface, 0, -Len(word)),
          span |-> <<st.span[1], st.span[2] - Len(word)>>,
          found |-> TRUE]
    ELSE st

\* lines 26-38: passes over no_start and no_end until one finds nothing
RECURSIVE StripLoop(_)
StripLoop(st) ==
    LET s0 == [st EXCEPT !.found = FALSE]
        s1 == StripStart(StripStart(s0, no_start[1]), no_start[2])
        s2 == StripEnd(StripEnd(s1, no_end[1]), no_end[2])
    IN  IF s2.found THEN StripLoop(s2) ELSE s2

\* clean_surface(surface, span): none stands for (None, None)
clean_surface(surface, span) ==
    LET st == StripLoop([surface |-> Replace(surface, "-", " "),
                         span |-> span, found |-> TRUE])
        split == Split(LowerStr(st.surface))
        article ==
            /\ Str(split[1]) \in {"one", "a", "an"}
            /\ Len(split) > 1
            /\ Str(split[2]) \in Range(UnitWords) \cup Range(TensWords)
    IN  IF st.surface = <<>>
        THEN [none |-> TRUE, surface |-> <<>>, span |-> span]
        ELSE IF article
        THEN [none |-> FALSE,
              surface |-> JoinSpace(Tail(Split(st.surface))),
              span |-> <<st.span[1] + Len(Split(st.surface)[1]) + 1,
                         st.span[2]>>]
        ELSE [none |-> FALSE, surface |-> st.surface, span |-> st.span]

-----------------------------------------------------------------------------
(* extract_spellout_values                                                 *)

\* lines 62-65 for one word of the surface
TokenOf(word) ==
    LET w == LowerStr(word)
    IN  IF float(w).ok THEN Lit(float(w).value) ELSE Word(Str(w))

\* lines 57-72 over the hits of REG_TXT.finditer(text), in order
RECURSIVE SpelloutRecords(_)
SpelloutRecords(hits) ==
    IF hits = <<>> THEN <<>>
    ELSE LET cs == clean_surface(Head(hits).surface, Head(hits).span)
             words == Split(cs.surface)
             tokens == [i \in DOMAIN words |-> TokenOf(words[i])]
         IN  IF cs.none \/ Str(LowerStr(cs.surface)) \in Range(SCALES)
             THEN SpelloutRecords(Tail(hits))
             ELSE <<Value(cs.surface, cs.span,
                          FloatStr(SpelloutValue(tokens)))>>
                  \o SpelloutRecords(Tail(hits))

\* The offset after the run of digits that begins at offset i
RECURSIVE DigitsEnd(_, _)
DigitsEnd(s, i) ==
    IF i < Len(s) /\ s[i + 1] \in Digits THEN DigitsEnd(s, i + 1) ELSE i

\* (,\d{3})+ taken greedily from offset j: the offset after the last group
RECURSIVE GroupsEnd(_, _)
GroupsEnd(s, j) ==
    IF /\ j + 4 <= Len(s)
       /\ s[j + 1] = ","
       /\ \A k \in 2..4 : s[j + k] \in Digits
    THEN GroupsEnd(s, j + 4)
    ELSE j

\* lines 74-77: re.finditer(r'\d+(,\d{3})+', text) from offset i on
RECURSIVE CommaRecords(_, _)
CommaRecords(s, i) ==
    IF i >= Len(s) THEN <<>>
    ELSE IF s[i + 1] \notin Digits THEN CommaRecords(s, i + 1)
    ELSE LET e == DigitsEnd(s, i)
             g == GroupsEnd(s, e)
             group0 == PySlice(s, i, g)
         IN  IF g = e THEN CommaRecords(s, e)
             ELSE <<Value(group0, <<i, g>>,
                          SelectSeq(group0, LAMBDA c : c # ","))>>
                  \o CommaRecords(s, g)

\* sorted(values, key=lambda x: x['old_span'][0]), a stable sort
RECURSIVE InsertBySpan(_, _)
InsertBySpan(sorted, v) ==
    IF sorted = <<>> THEN <<v>>
    ELSE IF Head(sorted).old_span[1] <= v.old_span[1]
         THEN <<Head(sorted)>> \o InsertBySpan(Tail(sorted), v)
         ELSE <<v>> \o sorted

RECURSIVE SortedBySpan(_)
SortedBySpan(vs) ==
    IF vs = <<>> THEN <<>>
    ELSE InsertBySpan(SortedBySpan(SubSeq(vs, 1, Len(vs) - 1)), vs[Len(vs)])

\* extract_spellout_values(text), given the hits of REG_TXT on the text
extract_spellout_values(t, hits) ==
    SortedBySpan(SpelloutRecords(hits) \o CommaRecords(t, 0))

-----------------------------------------------------------------------------
(* get_values                                                              *)

\* re.sub(' +', ' ', value)
RECURSIVE CollapseSpaces(_)
CollapseSpaces(s) ==
    IF Len(s) < 2 THEN s
    ELSE IF s[1] = " " /\ s[2] = " " THEN CollapseSpaces(Tail(s))
    ELSE <<s[1]>> \o CollapseSpaces(Tail(s))

IsDigitAt(s, i) == i >= 0 /\ i < Len(s) /\ s[i + 1] \in Digits

\* ' ?\d' matches at offset q
FollowedByDigit(s, q) ==
    \/ IsDigitAt(s, q)
    \/ q < Len(s) /\ s[q + 1] = " " /\ IsDigitAt(s, q + 1)

MinOf(S) == CHOOSE x \in S : \A y \in S : x <= y

\* The alternatives of the group with which '\d+ ?(alts) ?\d' matches from
\* the digit at offset i.  The run of digits and the space after it are taken
\* whole: no alternative begins with a digit or a space.
SeparatorsAt(s, i, alts) ==
    LET e == DigitsEnd(s, i)
        p == IF e < Len(s) /\ s[e + 1] = " " THEN e + 1 ELSE e
    IN  {k \in DOMAIN alts :
            OccursAt(s, alts[k], p) /\ FollowedByDigit(s, p + Len(alts[k]))}

\* re.findall(r'\d+ ?(alts) ?\d', value)[0], or <<>> for an empty result:
\* the leftmost match, and at it the first alternative that matches
FindSeparator(s, alts) ==
    LET starts == {i \in 0..(Len(s) - 1) :
                      IsDigitAt(s, i) /\ SeparatorsAt(s, i, alts) # {}}
    IN  IF starts = {} THEN <<>>
        ELSE alts[MinOf(SeparatorsAt(s, MinOf(starts), alts))]

\* (-|and|(?:- ?)?to), in the order the pattern tries them
range_alternatives ==
    << <<"-">>, <<"a", "n", "d">>, <<"-", " ", "t", "o">>, <<"-", "t", "o">>,
       <<"t", "o">> >>

\* (\+/-|U+00B1)
uncer_alternatives == << <<"+", "/", "-">>, <<"U+00B1">> >>

\* re.findall(r'\d+/\d+', value) is not empty
HasFraction(s) ==
    \E i \in 0..(Len(s) - 3) :
        IsDigitAt(s, i) /\ s[i + 2] = "/" /\ IsDigitAt(s, i + 2)

\* re.sub(r'-$', '', i)
StripHyphen(s) == IF EndsWith(s, <<"-">>) THEN PySlice(s, 0, -1) ELSE s

\* Fraction(s) for 'n/d' and 'n': ValueError for another form,
\* ZeroDivisionError for d = 0
Fraction(s) ==
    LET parts == SplitOn(Strip(s), <<"/">>)
    IN  IF Len(parts) = 1 /\ IsDigits(parts[1])
        THEN [error |-> "", num |-> DecimalValue(parts[1]), den |-> 1]
        ELSE IF Len(parts) = 2 /\ IsDigits(parts[1]) /\ IsDigits(parts[2])
        THEN IF DecimalValue(parts[2]) = 0
             THEN [error |-> "ZeroDivisionError", num |-> 0, den |-> 0]
             ELSE [error |-> "", num |-> DecimalValue(parts[1]),
                   den |-> DecimalValue(parts[2])]
        ELSE [error |-> "ValueError", num |-> 0, den |-> 0]

\* What get_values gives: error is "" for a return of (uncertainty, values)
\* and the exception's name otherwise; uncertainty <<>> is None
Returned(uncertainty, vals) ==
    [error |-> "", uncertainty |-> uncertainty, values |-> vals]
Raised(error) == [error |-> error, uncertainty |-> <<>>, values |-> <<>>]

\* [float(piece) for piece in pieces]
Floats(pieces) == [i \in DOMAIN pieces |-> float(pieces[i])]
AllOk(floats) == \A i \in DOMAIN floats : floats[i].ok
ValuesOf(floats) == [i \in DOMAIN floats |-> floats[i].value]

\* get_values(item), on item.group(2).  The multiplier spelling and the
\* fraction glyphs (lines 112-113) do not occur in the modelled texts.
get_values(group2) ==
    LET value == CollapseSpaces(group2)
        range_separator == FindSeparator(value, range_alternatives)
        uncer_separator == FindSeparator(value, uncer_alternatives)
    IN  IF range_separator # <<>>
        THEN LET pieces == SplitOn(value, range_separator)
                 floats == Floats([i \in DOMAIN pieces |->
                                      StripHyphen(pieces[i])])
             IN  IF AllOk(floats) THEN Returned(<<>>, ValuesOf(floats))
                 ELSE Raised("ValueError")
        ELSE IF uncer_separator # <<>>
        THEN LET floats == Floats(SplitOn(value, uncer_separator))
             IN  IF AllOk(floats)
                 THEN Returned(<<floats[2].value>>, <<floats[1].value>>)
                 ELSE Raised("ValueError")
        ELSE IF HasFraction(value)
        THEN LET words == Split(value)
                 whole == IF Len(words) > 1 THEN float(words[1])
                          ELSE [ok |-> TRUE, value |-> 0]
                 frac == Fraction(IF Len(words) > 1 THEN words[2]
                                  ELSE words[1])
             IN  IF ~whole.ok THEN Raised("ValueError")
                 ELSE IF frac.error # "" THEN Raised(frac.error)
                 ELSE Returned(<<>>, <<[whole |-> whole.value,
                                       num |-> frac.num, den |-> frac.den]>>)
        ELSE LET f == float(StripHyphen(value))
             IN  IF f.ok THEN Returned(<<>>, <<f.value>>)
                 ELSE Raised("ValueError")

-----------------------------------------------------------------------------
(* One call of get_values                                                  *)

\* The numerals a literal is written from: plain, decimal, signed and in
\* exponent form
Numerals ==
    { <<"3">>, <<"1", "0">>, <<"2", ".", "5">>, <<".", "5">>,
      <<"-", "3">>, <<"+", "3">>, <<"1", "e", "2">>,
      <<"1", "e", "-", "2">>, <<"-", "2", ".", "5", "e", "1">> }

\* A separator as written, bare or with a space on each side
Spaced(seps) == seps \cup {<<" ">> \o s \o <<" ">> : s \in seps}

RangeSeparators ==
    Spaced({ <<"-">>, <<"a", "n", "d">>, <<"t", "o">>, <<"-", "t", "o">>,
             <<"-", " ", "t", "o">> })
UncertaintySeparators == Spaced({ <<"+", "/", "-">>, <<"U+00B1">> })

\* 'N/M' and 'whole N/M'
FractionLiterals ==
    { <<"1", "/", "2">>, <<"3", "/", "4">>, <<"3", " ", "1", "/", "2">>,
      <<"2", ".", "5", " ", "3", "/", "4">> }

\* A numeral, bare or with the dangling hyphen of a greedy match
SingleLiterals == Numerals \cup {n \o <<"-">> : n \in Numerals}

Joined(a, sep, b) == [a |-> a, sep |-> sep, b |-> b]
Alone(a) == [a |-> a, sep |-> <<>>, b |-> <<>>]

gv_Init ==
    /\ \/ /\ gv_kind = "range"
          /\ \E a \in Numerals, sep \in RangeSeparators, b \in Numerals :
                 gv_parts = Joined(a, sep, b)
       \/ /\ gv_kind = "uncertainty"
          /\ \E a \in Numerals, sep \in UncertaintySeparators,
                b \in Numerals :
                 gv_parts = Joined(a, sep, b)
       \/ /\ gv_kind = "fraction"
          /\ \E a \in FractionLiterals : gv_parts = Alone(a)
       \/ /\ gv_kind = "single"
          /\ \E a \in SingleLiterals : gv_parts = Alone(a)
    /\ gv_value = gv_parts.a \o gv_parts.sep \o gv_parts.b
    /\ gv_result = Raised("")
    /\ gv_pc = "call"

gv_Off ==
    /\ gv_kind = ""
    /\ gv_parts = Alone(<<>>)
    /\ gv_value = <<>>
    /\ gv_result = Raised("")
    /\ gv_pc = "idle"

GvCall ==
    /\ gv_pc = "call"
    /\ gv_result' = get_values(gv_value)
    /\ gv_pc' = "done"
    /\ UNCHANGED <<gv_kind, gv_parts, gv_value, gv_others>>

gv_Next == GvCall

(* C11 *)
\* The floats of the two numerals of a literal written as a range
RangeEnds == <<float(gv_parts.a).value, float(gv_parts.b).value>>

\* C11: a literal of two numerals joined by a range separator gives the two
\* floats in textual order and no uncertainty; an uncertainty is given only
\* for a literal written with an uncertainty separator, and then with exactly
\* one value
C11_RangeAndUncertainty ==
    gv_pc = "done" =>
        /\ gv_kind = "range" => gv_result = Returned(<<>>, RangeEnds)
        /\ gv_result.uncertainty # <<>> =>
               gv_kind = "uncertainty" /\ Len(gv_result.values) = 1

\* The same for the ranges the pattern of line 116 recognises: both numerals
\* start and end with a digit and hold no hyphen
Unsplit(n) ==
    /\ n[1] \in Digits
    /\ n[Len(n)] \in Digits
    /\ \A i \in DOMAIN n : n[i] # "-"
C11_DigitBoundedRanges ==
    gv_pc = "done" /\ gv_kind = "range"
    /\ Unsplit(gv_parts.a) /\ Unsplit(gv_parts.b)
        => gv_result = Returned(<<>>, RangeEnds)

-----------------------------------------------------------------------------
(* get_surface                                                             *)

\* lines 280-282
RECURSIVE TrimEnd(_)
TrimEnd(st) ==
    IF EndsWith(st.surface, <<" ">>) \/ EndsWith(st.surface, <<"-">>)
    THEN TrimEnd([surface |-> PySlice(st.surface, 0, -1),
                  span |-> <<st.span[1], st.span[2] - 1>>])
    ELSE st

\* lines 284-286
RECURSIVE TrimStart(_)
TrimStart(st) ==
    IF StartsWith(st.surface, <<" ">>)
    THEN TrimStart([surface |-> PyFrom(st.surface, 1),
                    span |-> <<st.span[1] + 1, st.span[2]>>])
    ELSE st

\* get_surface(shifts, orig_text, item, text): surface and real_span
get_surface(shifts, orig_text, item) ==
    LET span == real_span(shifts, item.span)
    IN  TrimStart(TrimEnd([surface |-> PySlice(orig_text, span[1], span[2]),
                           span |-> span]))

-----------------------------------------------------------------------------
(* is_quote_artifact                                                       *)

\* The double quote and the apostrophe
Quotes == {"U+0022", "'"}
\* [^ .,:;?!()*+-]
NotAfterQuote == {" ", ".", ",", ":", ";", "?", "!", "(", ")", "*", "+", "-"}

\* The ends of the matches of ("|')[^ .,:;?!()*+-].*?("|') from offset i on
RECURSIVE QuotedEnds(_, _)
QuotedEnds(s, i) ==
    IF i + 3 > Len(s) THEN {}
    ELSE LET closing == {j \in (i + 2)..(Len(s) - 1) : s[j + 1] \in Quotes}
         IN  IF s[i + 1] \in Quotes /\ s[i + 2] \notin NotAfterQuote
                /\ closing # {}
             THEN {MinOf(closing) + 1} \cup QuotedEnds(s, MinOf(closing) + 1)
             ELSE QuotedEnds(s, i + 1)

is_quote_artifact(orig_text, span) == span[2] \in QuotedEnds(orig_text, 0)

-----------------------------------------------------------------------------
(* build_quantity                                                          *)

Contains(s, p) == Find(s, p) # -1

\* re.search(r'1st|2nd|3rd|[04-9]th', surface)
HasOrdinal(s) ==
    \/ Contains(s, <<"1", "s", "t">>)
    \/ Contains(s, <<"2", "n", "d">>)
    \/ Contains(s, <<"3", "r", "d">>)
    \/ \E i \in 0..(Len(s) - 3) :
          /\ s[i + 1] \in {"0", "4", "5", "6", "7", "8", "9"}
          /\ OccursAt(s, <<"t", "h">>, i + 1)

\* re.search(r'\d+[A-Z]+\d+', surface)
HasCode(s) ==
    \E i \in 0..(Len(s) - 3) : \E j \in (i + 1)..(Len(s) - 2) :
        /\ IsDigitAt(s, i) /\ IsDigitAt(s, j + 1)
        /\ \A k \in (i + 1)..j : s[k + 1] \in Upper

\* re.search(r'\ba second\b', surface, re.IGNORECASE)
HasASecond(s) ==
    \E i \in 0..Len(s) :
        /\ OccursAt(LowerStr(s), <<"a", " ", "s", "e", "c", "o", "n", "d">>, i)
        /\ Boundary(s, i) /\ Boundary(s, i + 8)

\* lines 309-312
Discarded(surface) ==
    \/ LowerStr(surface) \in {<<"a">>, <<"a", "n">>, <<"o", "n", "e">>}
    \/ HasOrdinal(surface)
    \/ HasCode(surface)
    \/ HasASecond(surface)

\* (K|M|B|T)
Magnitudes == {"K", "M", "B", "T"}

\* r.SUFFIXES: thousand, million, billion, trillion
SUFFIXES(c) ==
    CASE c = "K" -> 1000
      [] c = "M" -> 1000000
      [] c = "B" -> 1000000000
      [] c = "T" -> 1000000000 * 1000

\* line 321: the offset of the first match of \d(K|M|B|T)\b(.*?)$ in the
\* surface, -1 when findall gives an empty list
SuffixInSurface(s) ==
    LET hits == {i \in 0..(Len(s) - 2) :
                    /\ IsDigitAt(s, i)
                    /\ s[i + 2] \in Magnitudes
                    /\ Boundary(s, i + 2)}
    IN  IF hits = {} THEN -1 ELSE MinOf(hits)

\* lines 332-333: the offset of the first match of
\* re.escape(surface) + (K|M|B|T)\b anywhere in orig_text, -1 when there is
\* none
SuffixInText(surface, orig_text) ==
    LET hits == {i \in 0..Len(orig_text) :
                    /\ OccursAt(orig_text, surface, i)
                    /\ i + Len(surface) < Len(orig_text)
                    /\ orig_text[i + Len(surface) + 1] \in Magnitudes
                    /\ Boundary(orig_text, i + Len(surface) + 1)}
    IN  IF hits = {} THEN -1 ELSE MinOf(hits)

\* re.match(r'[1-2]\d\d0s', surface)
IsDecade(s) ==
    /\ Len(s) >= 5
    /\ s[1] \in {"1", "2"} /\ s[2] \in Digits /\ s[3] \in Digits
    /\ s[4] = "0" /\ s[5] = "s"

\* dimensions[:-1]
AllButLast(dimensions) == SubSeq(dimensions, 1, Len(dimensions) - 1)

\* lines 360-363 and 351-354: the unit without its last dimension
Demoted(unit) ==
    IF Len(unit.dimensions) > 1
    THEN get_unit_from_dimensions(AllButLast(unit.dimensions))
    ELSE NAMES.dimensionless

\* lines 375-384: one Quantity per value
Objs(vals, unit, surface, span, uncert) ==
    [kind |-> "objs",
     objs |-> [i \in DOMAIN vals |->
                  Quantity(vals[i], unit, surface, span, uncert)]]

\* lines 319-329: a composite unit on a currency
CurrencyComposite(vals, unit, surface, span, uncert) ==
    LET at == SuffixInSurface(surface)
        suffix1 == surface[at + 2]
        suffix2 == PyFrom(surface, at + 2)
        scaled == [i \in DOMAIN vals |-> vals[i] * SUFFIXES(suffix1)]
        first_unit == UNITS[unit.dimensions[1].base][1]
    IN  IF at = -1 THEN Objs(vals, unit, surface, span, uncert)
        ELSE IF suffix2 # <<>>
        THEN Objs(scaled, first_unit,
                  PySlice(surface, 0, Find(surface, suffix2)),
                  <<span[1], span[2] - Len(suffix2)>>, uncert)
        ELSE Objs(scaled, first_unit, surface, span, uncert)

\* lines 330-339: a unit of one dimension on a currency
CurrencySimple(orig_text, vals, unit, surface, span, uncert) ==
    LET at == SuffixInText(surface, orig_text)
        suffix == orig_text[at + Len(surface) + 1]
    IN  IF at = -1 THEN Objs(vals, unit, surface, span, uncert)
        ELSE Objs([i \in DOMAIN vals |-> vals[i] * SUFFIXES(suffix)], unit,
                  surface \o <<suffix>>, <<span[1], span[2] + 1>>, uncert)

EndsWithIn(s) == EndsWith(s, <<" ", "i", "n">>)
EndsWithTime(s) == EndsWith(s, <<" ", "t", "i", "m", "e">>)

\* build_quantity: kind is "none" for a return of None, "objs" for a list
\* of Quantities and "raised" for the IndexError of unit.dimensions[-1] on
\* an empty list
build_quantity(orig_text, text, item, vals, unit, surface, span, uncert) ==
    LET dimensions == unit.dimensions
        last == dimensions[Len(dimensions)]
    IN  IF Discarded(surface) THEN [kind |-> "none", objs |-> <<>>]
        ELSE IF /\ unit.entity.dimensions # <<>>
                /\ unit.entity.dimensions[1].base = "currency"
        THEN IF Len(dimensions) > 1
             THEN CurrencyComposite(vals, unit, surface, span, uncert)
             ELSE CurrencySimple(orig_text, vals, unit, surface, span, uncert)
        ELSE IF IsDecade(surface)
        THEN Objs(vals, NAMES.dimensionless, PySlice(surface, 0, -1),
                  <<span[1], span[2] - 1>>, uncert)
        ELSE IF dimensions = <<>> THEN [kind |-> "raised", objs |-> <<>>]
        ELSE IF /\ last.base = "inch"
                /\ EndsWithIn(surface)
                /\ ~Contains(surface, <<"/">>)
        THEN Objs(vals, Demoted(unit), PySlice(surface, 0, -3),
                  <<span[1], span[2] - 3>>, uncert)
        ELSE IF is_quote_artifact(text, item.span)
        THEN Objs(vals, Demoted(unit), PySlice(surface, 0, -1),
                  <<span[1], span[2] - 1>>, uncert)
        ELSE IF /\ EndsWithTime(surface)
                /\ Len(dimensions) > 1
                /\ last.base = "count"
        THEN Objs(vals, get_unit_from_dimensions(AllButLast(dimensions)),
                  PySlice(surface, 0, -5), <<span[1], span[2] - 5>>, uncert)
        ELSE Objs(vals, unit, surface, span, uncert)

-----------------------------------------------------------------------------
(* The grammar (regex.py), from its interface.  The texts given to parse   *)
(* are made of fragments; a fragment begins with a space and carries what  *)
(* the two patterns yield on it: the hits of REG_TXT (spans within the     *)
(* fragment), and the hit of REG_DIM (its span and the span of its numeric *)
(* literal, group 2, both within the fragment as it is before the          *)
(* substitution, and its unit and operator groups).                        *)

Lexeme(chars, txt, match, number, prefix, terms) ==
    [chars |-> chars, txt |-> txt, match |-> match, number |-> number,
     groups |-> ItemOf(prefix, terms)]

Lexicon ==
    <<
        \* a number and a unit
        Lexeme(<<" ", "3", " ", "m">>,
               <<>>, <<1, 4>>, <<1, 2>>,
               NoGroup, <<<<NoGroup, Group("m", "none", 0)>>>>),
        \* a bare number
        Lexeme(<<" ", "7">>,
               <<>>, <<1, 2>>, <<1, 2>>,
               NoGroup, <<>>),
        \* per dollar
        Lexeme(<<" ", "3", "/", "$">>,
               <<>>, <<1, 4>>, <<1, 2>>,
               NoGroup, <<<<Group("/", "none", 0), Group("$", "none", 0)>>>>),
        \* per dollar, a magnitude letter after the hit
        Lexeme(<<" ", "3", "/", "$", "M">>,
               <<>>, <<1, 4>>, <<1, 2>>,
               NoGroup, <<<<Group("/", "none", 0), Group("$", "none", 0)>>>>),
        \* a spelled number, one character shorter than its digits
        Lexeme(<<" ", "t", "e", "n", " ", "m">>,
               <<<<0, 4>>>>, <<1, 6>>, <<1, 4>>,
               NoGroup, <<<<NoGroup, Group("m", "none", 0)>>>>),
        \* a spelled number after a stop word, longer than its digits
        Lexeme(<<" ", "a", "n", "d", " ", "t", "h", "r", "e", "e", " ", "m">>,
               <<<<0, 10>>>>, <<5, 12>>, <<5, 10>>,
               NoGroup, <<<<NoGroup, Group("m", "none", 0)>>>>),
        \* a digit literal and a scale word
        Lexeme(<<" ", "2", " ", "b", "i", "l", "l", "i", "o", "n", " ", "m">>,
               <<<<0, 10>>>>, <<1, 12>>, <<1, 10>>,
               NoGroup, <<<<NoGroup, Group("m", "none", 0)>>>>),
        \* a comma-grouped number; the hit takes the space before it
        Lexeme(<<" ", "1", ",", "0", "0", "0", " ", "m">>,
               <<>>, <<0, 8>>, <<1, 6>>,
               NoGroup, <<<<NoGroup, Group("m", "none", 0)>>>>),
        \* a decade
        Lexeme(<<" ", "1", "9", "9", "0", "s">>,
               <<>>, <<1, 6>>, <<1, 5>>,
               NoGroup, <<<<NoGroup, Group("s", "none", 0)>>>>),
        \* the preposition in
        Lexeme(<<" ", "3", " ", "i", "n">>,
               <<>>, <<1, 5>>, <<1, 2>>,
               NoGroup, <<<<Group(" ", "none", 0), Group("in", "none", 0)>>>>),
        \* a closing quote read as the inch symbol
        Lexeme(<<" ", "U+0022", "a", " ", "3", "U+0022">>,
               <<>>, <<4, 6>>, <<4, 5>>,
               NoGroup, <<<<NoGroup, Group("U+0022", "none", 0)>>>>),
        \* the word time read as a count
        Lexeme(<<" ", "3", " ", "m", " ", "t", "i", "m", "e">>,
               <<>>, <<1, 9>>, <<1, 2>>,
               NoGroup, <<<<NoGroup, Group("m", "none", 0)>>,
                          <<Group(" ", "none", 0),
                            Group("time", "none", 0)>>>>),
        \* a range whose first piece is not a float
        Lexeme(<<" ", "1", "/", "2", " ", "t", "o", " ", "3", " ", "m">>,
               <<>>, <<1, 11>>, <<1, 9>>,
               NoGroup, <<<<NoGroup, Group("m", "none", 0)>>>>),
        \* a range
        Lexeme(<<" ", "1", " ", "t", "o", " ", "2", " ", "m">>,
               <<>>, <<1, 9>>, <<1, 7>>,
               NoGroup, <<<<NoGroup, Group("m", "none", 0)>>>>),
        \* a number and a dangling hyphen
        Lexeme(<<" ", "3", "-">>,
               <<>>, <<1, 3>>, <<1, 3>>,
               NoGroup, <<>>),
        \* a currency with a magnitude letter read as a unit
        Lexeme(<<" ", "$", "2", "B", "/", "s">>,
               <<>>, <<1, 6>>, <<2, 3>>,
               Group("$", "none", 0),
               <<<<NoGroup, Group("B", "none", 0)>>,
                 <<Group("/", "none", 0), Group("s", "none", 0)>>>>),
        \* a value and its uncertainty
        Lexeme(<<" ", "4", " ", "+", "/", "-", " ", "1", " ", "m">>,
               <<>>, <<1, 10>>, <<1, 8>>,
               NoGroup, <<<<NoGroup, Group("m", "none", 0)>>>>),
        \* an ordinal
        Lexeme(<<" ", "1", "s", "t">>,
               <<>>, <<1, 4>>, <<1, 2>>,
               NoGroup, <<<<NoGroup, Group("st", "none", 0)>>>>),
        \* a genitive after the unit
        Lexeme(<<" ", "3", " ", "m", "'", "s">>,
               <<>>, <<1, 4>>, <<1, 2>>,
               NoGroup, <<<<NoGroup, Group("m", "none", 0)>>>>),
        \* a fraction
        Lexeme(<<" ", "1", "/", "2", " ", "m">>,
               <<>>, <<1, 6>>, <<1, 4>>,
               NoGroup, <<<<NoGroup, Group("m", "none", 0)>>>>),
        \* a fraction of denominator zero
        Lexeme(<<" ", "1", "/", "0", " ", "m">>,
               <<>>, <<1, 6>>, <<1, 4>>,
               NoGroup, <<<<NoGroup, Group("m", "none", 0)>>>>),
        \* a bare number right after an abbreviation
        Lexeme(<<" ", "n", "o", ".", "7">>,
               <<>>, <<4, 5>>, <<4, 5>>,
               NoGroup, <<>>),
        \* an amount of a currency: its entity has no dimensions
        Lexeme(<<" ", "$", "3">>,
               <<>>, <<1, 3>>, <<2, 3>>,
               Group("$", "none", 0), <<>>),
        \* an amount of a currency, a magnitude letter after its digits
        Lexeme(<<" ", "$", "3", "M">>,
               <<>>, <<1, 3>>, <<2, 3>>,
               Group("$", "none", 0), <<>>)
    >>

\* The text made of the fragments sg
TextOf(sg) == Concat([k \in DOMAIN sg |-> Lexicon[sg[k]].chars])

\* The offset of the k-th fragment in the text
SegStart(sg, k) == Len(TextOf(SubSeq(sg, 1, k - 1)))

\* REG_TXT.finditer(text): surface and span of every hit, left to right
RECURSIVE TxtHits(_, _, _)
TxtHits(t, sg, k) ==
    IF k > Len(sg) THEN <<>>
    ELSE LET txt == Lexicon[sg[k]].txt
             o == SegStart(sg, k)
         IN  [i \in DOMAIN txt |->
                 [surface |-> PySlice(t, o + txt[i][1], o + txt[i][2]),
                  span |-> <<o + txt[i][1], o + txt[i][2]>>]]
             \o TxtHits(t, sg, k + 1)

REG_TXT_finditer(t, sg) == TxtHits(t, sg, 1)

\* By how much the replacements that begin before offset p of the text
\* change its length
RECURSIVE Growth(_, _)
Growth(vals, p) ==
    IF vals = <<>> THEN 0
    ELSE (IF Head(vals).old_span[1] < p
          THEN Len(Head(vals).new_surface) - Len(Head(vals).old_surface)
          ELSE 0) + Growth(Tail(vals), p)

\* Where offset p of the text is after the substitution
Substituted(vals, p) == p + Growth(vals, p)

\* REG_DIM.finditer(text) on the substituted text: span, group 2 and the
\* unit and operator groups of every hit, left to right; hit is the number
\* of the fragment
REG_DIM_finditer(t, vals, sg) ==
    [k \in DOMAIN sg |->
        LET lx == Lexicon[sg[k]]
            o == SegStart(sg, k)
        IN  [span |-> <<Substituted(vals, o + lx.match[1]),
                        Substituted(vals, o + lx.match[2])>>,
             group2 |-> PySlice(t, Substituted(vals, o + lx.number[1]),
                                Substituted(vals, o + lx.number[2])),
             groups |-> lx.groups]]

-----------------------------------------------------------------------------
(* parse and inline_parse                                                  *)

\* The most fragments in a text
MaxSegs == 2

SegLists == UNION {[1..n -> DOMAIN Lexicon] : n \in 0..MaxSegs}

\* logging.DEBUG, and logging.WARNING, the level of the root logger when
\* nothing has set it
DEBUG == 10
WARNING == 30
Levels == {DEBUG, WARNING}
NoLevel == -1

pa_Init ==
    /\ pa_segs \in SegLists
    /\ pa_orig_text = TextOf(pa_segs)
    /\ pa_text = <<>>
    /\ pa_shifts = <<>>
    /\ pa_items = <<>>
    /\ pa_item_no = 1
    /\ pa_values = <<>>
    /\ pa_uncert = <<>>
    /\ pa_uncert_bound = FALSE
    /\ pa_quantities = <<>>
    /\ pa_origin = <<>>
    /\ pa_failed = {}
    /\ il_text = TextOf(pa_segs)
    /\ il_shift = 0
    /\ il_no = 1
    /\ pa_pc = "start"
    /\ pa_verbose \in BOOLEAN
    /\ pa_level = NoLevel
    /\ root_level \in Levels
    /\ root_before = root_level

pa_Off ==
    /\ pa_segs = <<>>
    /\ pa_orig_text = <<>>
    /\ pa_text = <<>>
    /\ pa_shifts = <<>>
    /\ pa_items = <<>>
    /\ pa_item_no = 1
    /\ pa_values = <<>>
    /\ pa_uncert = <<>>
    /\ pa_uncert_bound = FALSE
    /\ pa_quantities = <<>>
    /\ pa_origin = <<>>
    /\ pa_failed = {}
    /\ il_text = <<>>
    /\ il_shift = 0
    /\ il_no = 1
    /\ pa_pc = "idle"
    /\ pa_verbose = FALSE
    /\ pa_level = NoLevel
    /\ root_level = WARNING
    /\ root_before = WARNING

\* parse, lines 410-413: verbose mode keeps the level and sets DEBUG
Entered ==
    IF pa_verbose
    THEN pa_level' = root_level /\ root_level' = DEBUG
    ELSE UNCHANGED <<pa_level, root_level>>

\* parse, lines 441-442: verbose mode puts the level kept back
Left ==
    IF pa_verbose
    THEN root_level' = pa_level /\ UNCHANGED pa_level
    ELSE UNCHANGED <<pa_level, root_level>>

\* parse, lines 405-422: values is bound to the replacement list
ParsePrepare ==
    /\ pa_pc = "start"
    /\ Entered
    /\ \E cleaned \in {clean_text(pa_orig_text)} :
           /\ pa_values' = extract_spellout_values(
                                cleaned, REG_TXT_finditer(cleaned, pa_segs))
           /\ \E sub \in {substitute_values(cleaned, pa_values')} :
                  pa_text' = sub.text /\ pa_shifts' = sub.shifts
           /\ pa_items' = REG_DIM_finditer(pa_text', pa_values', pa_segs)
    /\ pa_quantities' = <<>>
    /\ pa_origin' = <<>>
    /\ pa_item_no' = 1
    /\ pa_pc' = "loop"
    /\ UNCHANGED <<pa_segs, pa_orig_text, pa_uncert, pa_uncert_bound,
                   pa_failed, il_text, il_shift, il_no, pa_verbose,
                   root_before, pa_others>>

InLoop == pa_pc = "loop" /\ pa_item_no <= Len(pa_items)

\* lines 434-439 for the current hit, with the values and the uncertainty
\* that the local variables hold
Build(vals, uncert) ==
    \E item \in {pa_items[pa_item_no]} :
    \E unit \in {get_unit(item.groups)} :
    \E sf \in {get_surface(pa_shifts, pa_orig_text, item)} :
    \E built \in {build_quantity(pa_orig_text, pa_text, item, vals, unit,
                                 sf.surface, sf.span, uncert)} :
        IF built.kind = "raised"
        THEN /\ pa_pc' = "raised"
             /\ UNCHANGED <<pa_quantities, pa_origin, pa_item_no>>
        ELSE /\ pa_quantities' = pa_quantities \o built.objs
             /\ pa_origin' =
                    pa_origin \o [i \in DOMAIN built.objs |-> pa_item_no]
             /\ pa_item_no' = pa_item_no + 1
             /\ pa_pc' = pa_pc

\* One pass of the loop: get_values returns
ParseMatch ==
    /\ InLoop
    /\ \E got \in {get_values(pa_items[pa_item_no].group2)} :
           /\ got.error = ""
           /\ pa_values' = got.values
           /\ pa_uncert' = got.uncertainty
           /\ pa_uncert_bound' = TRUE
           /\ Build(got.values, got.uncertainty)
    /\ UNCHANGED <<pa_segs, pa_orig_text, pa_text, pa_shifts, pa_items,
                   pa_failed, il_text, il_shift, il_no, log_vars, pa_others>>

\* One pass of the loop: get_values raises ValueError, which lines 431-432
\* catch, and uncert and values hold what an earlier pass assigned
ParseMatchStale ==
    /\ InLoop
    /\ get_values(pa_items[pa_item_no].group2).error = "ValueError"
    /\ pa_uncert_bound
    /\ pa_failed' = pa_failed \cup {pa_item_no}
    /\ Build(pa_values, pa_uncert)
    /\ UNCHANGED <<pa_segs, pa_orig_text, pa_text, pa_shifts, pa_items,
                   pa_values, pa_uncert, pa_uncert_bound, il_text, il_shift,
                   il_no, log_vars, pa_others>>

\* One pass of the loop: get_values raises ValueError, which lines 431-432
\* catch, and no pass has assigned uncert: line 436 reads an unbound local
\* variable, an UnboundLocalError that nothing catches
ParseMatchUnbound ==
    /\ InLoop
    /\ get_values(pa_items[pa_item_no].group2).error = "ValueError"
    /\ ~pa_uncert_bound
    /\ pa_failed' = pa_failed \cup {pa_item_no}
    /\ pa_pc' = "raised"
    /\ UNCHANGED <<pa_segs, pa_orig_text, pa_text, pa_shifts, pa_items,
                   pa_item_no, pa_values, pa_uncert, pa_uncert_bound,
                   pa_quantities, pa_origin, il_text, il_shift, il_no,
                   log_vars, pa_others>>

\* One pass of the loop: get_values raises an exception that is not a
\* ValueError, which nothing catches
ParseMatchError ==
    /\ InLoop
    /\ get_values(pa_items[pa_item_no].group2).error
           \notin {"", "ValueError"}
    /\ pa_pc' = "raised"
    /\ UNCHANGED <<pa_segs, pa_orig_text, pa_text, pa_shifts, pa_items,
                   pa_item_no, pa_values, pa_uncert, pa_uncert_bound,
                   pa_quantities, pa_origin, pa_failed, il_text, il_shift,
                   il_no, log_vars, pa_others>>

\* lines 441-444, and line 452 of inline_parse
ParseReturn ==
    /\ pa_pc = "loop" /\ pa_item_no > Len(pa_items)
    /\ Left
    /\ pa_pc' = "returned"
    /\ il_shift' = 0
    /\ il_no' = 1
    /\ UNCHANGED <<pa_segs, pa_orig_text, pa_text, pa_shifts, pa_items,
                   pa_item_no, pa_values, pa_uncert, pa_uncert_bound,
                   pa_quantities, pa_origin, pa_failed, il_text, pa_verbose,
                   root_before, pa_others>>

\* ' {' + str(quantity) + '}': str(quantity) is one element that names the
\* quantity by its place in the result
QuantityStr(k) == "Quantity" \o ToString(k)
Annotation(k) == <<" ", "{", QuantityStr(k), "}">>

\* inline_parse, lines 454-457 for one quantity
InlineInsert ==
    /\ pa_pc = "returned" /\ il_no <= Len(pa_quantities)
    /\ \E index \in {pa_quantities[il_no].span[2] + il_shift},
          to_add \in {Annotation(il_no)} :
           /\ il_text' = PySlice(il_text, 0, index) \o to_add
                         \o PyFrom(il_text, index)
           /\ il_shift' = il_shift + Len(to_add)
    /\ il_no' = il_no + 1
    /\ UNCHANGED <<pa_segs, pa_orig_text, pa_text, pa_shifts, pa_items,
                   pa_item_no, pa_values, pa_uncert, pa_uncert_bound,
                   pa_quantities, pa_origin, pa_failed, pa_pc, log_vars,
                   pa_others>>

\* inline_parse, line 459
InlineReturn ==
    /\ pa_pc = "returned" /\ il_no > Len(pa_quantities)
    /\ pa_pc' = "inlined"
    /\ UNCHANGED <<pa_segs, pa_orig_text, pa_text, pa_shifts, pa_items,
                   pa_item_no, pa_values, pa_uncert, pa_uncert_bound,
                   pa_quantities, pa_origin, pa_failed, il_text, il_shift,
                   il_no, log_vars, pa_others>>

Next ==
    \/ ParsePrepare
    \/ ParseMatch
    \/ ParseMatchStale
    \/ ParseMatchUnbound
    \/ ParseMatchError
    \/ ParseReturn
    \/ InlineInsert
    \/ InlineReturn

-----------------------------------------------------------------------------
(* Properties of parse and inline_parse                                    *)

\* parse has returned its list
HasReturned == pa_pc \in {"returned", "inlined"}

SpanInText(q) ==
    /\ 0 <= q.span[1]
    /\ q.span[1] <= q.span[2]
    /\ q.span[2] <= Len(pa_orig_text)

SurfaceAtSpan(q) == q.surface = PySlice(pa_orig_text, q.span[1], q.span[2])

\* C1: for every Quantity q that parse(text) returns,
\* 0 <= q.span[0] <= q.span[1] <= len(text) and q.surface is
\* text[q.span[0]:q.span[1]], whichever correction rule fired and whether or
\* not the hit overlaps a substitution.
C1_SpanAndSurface ==
    HasReturned =>
        \A k \in DOMAIN pa_quantities :
            SpanInText(pa_quantities[k]) /\ SurfaceAtSpan(pa_quantities[k])

\* C2: the list that parse returns is in non-decreasing order of span start:
\* mapping the starts of the hits back through the shift table does not
\* reorder them, for replacements that shrink the text and for replacements
\* that grow it.
C2_StartsNonDecreasing ==
    HasReturned =>
        \A k \in 1..(Len(pa_quantities) - 1) :
            pa_quantities[k].span[1] <= pa_quantities[k + 1].span[1]

\* parse has returned the quantities of ' and three m 2 billion m': a
\* replacement shorter than its phrase, then one longer than its phrase
C2_Witness ==
    /\ pa_pc = "returned"
    /\ Str(pa_text) = " and 3.0 m 2000000000.0 m"
    /\ [k \in DOMAIN pa_quantities |-> pa_quantities[k].span]
           = << <<5, 12>>, <<13, 24>> >>

\* C3: parse is total: it returns a list for every text and never raises,
\* be it on a numeric literal that get_values cannot parse (the first hit of
\* the text included), on a dimension key with no derived entity, or on a
\* unit of no dimension.
C3_ParseNeverRaises == pa_pc # "raised"

\* C4: when get_values raises ValueError on a hit, parse skips the hit: no
\* Quantity is built for it, from the values and the uncertainty of an
\* earlier hit or from anything else.
C4_FailedHitSkipped ==
    \A k \in DOMAIN pa_origin : pa_origin[k] \notin pa_failed

\* Where the annotation of quantity k is in the text of inline_parse
AnnotationAt(k) == CHOOSE p \in DOMAIN il_text : il_text[p] = QuantityStr(k)

\* How many characters of the text given stand before the annotation of
\* quantity k: what stands before it, less its own ' {' and the annotations
\* inserted before it
OriginalBefore(k) ==
    (AnnotationAt(k) - 3)
    - Len(Annotation(k)) * Cardinality({j \in 1..(il_no - 1) :
                                           AnnotationAt(j) < AnnotationAt(k)})

\* C5: inline_parse inserts the annotation of every quantity q at offset
\* q.span[1] of the text given, right after the surface of q: for the two
\* quantities of a range, on one span, and for a quantity whose span end a
\* correction rule changed.
C5_AnnotationAtSpanEnd ==
    HasReturned =>
        \A k \in 1..(il_no - 1) : OriginalBefore(k) = pa_quantities[k].span[2]


\* What lines 434-435 give for hit h, and what get_values gave for it
HitUnit(h) == get_unit(pa_items[h].groups)
HitSurface(h) == get_surface(pa_shifts, pa_orig_text, pa_items[h])
HitValues(h) == get_values(pa_items[h].group2).values

\* line 316: the unit's entity is on a currency
OnCurrency(unit) ==
    /\ unit.entity.dimensions # <<>>
    /\ unit.entity.dimensions[1].base = "currency"

\* The magnitude letter of hit h in the original text: within the surface
\* after a digit when the letter was read as a second unit, otherwise right
\* after the surface, at the span of the hit; "" when there is none
OwnSuffix(h) ==
    LET sf == HitSurface(h)
        at == SuffixInSurface(sf.surface)
        end == sf.span[2]
    IN  IF Len(HitUnit(h).dimensions) > 1
        THEN IF at = -1 THEN "" ELSE sf.surface[at + 2]
        ELSE IF /\ end < Len(pa_orig_text)
                /\ pa_orig_text[end + 1] \in Magnitudes
                /\ Boundary(pa_orig_text, end + 1)
        THEN pa_orig_text[end + 1]
        ELSE ""

\* Which of the values of its hit the k-th quantity holds
ValueNo(k) == Cardinality({j \in 1..k : pa_origin[j] = pa_origin[k]})

\* C12: a hit on a currency is scaled only by a magnitude letter (K, M, B, T)
\* at its own place in the original text.  With one, every value is
\* multiplied by the letter's multiplier, a composite unit becomes its first
\* currency unit, and the surface and the span end with the letter; without
\* one, the values, the surface and the span stay as they were, whatever
\* follows the same surface elsewhere in the text.
C12_SuffixAtOwnPosition ==
    \A k \in DOMAIN pa_quantities :
        LET h == pa_origin[k]
            q == pa_quantities[k]
            unit == HitUnit(h)
            sf == HitSurface(h)
            v == HitValues(h)[ValueNo(k)]
            letter == OwnSuffix(h)
        IN  OnCurrency(unit) /\ h \notin pa_failed =>
                IF letter = ""
                THEN q.value = v /\ q.surface = sf.surface /\ q.span = sf.span
                ELSE /\ q.value = v * SUFFIXES(letter)
                     /\ Len(unit.dimensions) > 1 =>
                            q.unit = UNITS[unit.dimensions[1].base][1]
                     /\ EndsWith(q.surface, <<letter>>)
                     /\ q.span = <<sf.span[1], sf.span[1] + Len(q.surface)>>
                     /\ SurfaceAtSpan(q)

\* The same for the texts in which no surface of a currency hit without a
\* letter occurs elsewhere before a letter
SuffixElsewhere(h) ==
    /\ OnCurrency(HitUnit(h))
    /\ Len(HitUnit(h).dimensions) = 1
    /\ OwnSuffix(h) = ""
    /\ SuffixInText(HitSurface(h).surface, pa_orig_text) # -1
C12_NoSuffixElsewhere ==
    (pa_pc # "start" /\ \A h \in DOMAIN pa_items : ~SuffixElsewhere(h))
        => C12_SuffixAtOwnPosition


\* parse has ended: a return, or an exception that nothing caught
HasEnded == pa_pc \in {"returned", "inlined", "raised"}

\* C13: when a call parse(text, verbose=True) has ended, by a return or by
\* an exception, the level of the root logger is what it was before the
\* call; a call with verbose=False leaves the level alone throughout.
C13_LevelRestored ==
    /\ HasEnded => root_level = root_before
    /\ ~pa_verbose => root_level = root_before

\* The same for the calls that return
C13_LevelRestoredOnReturn ==
    /\ HasReturned => root_level = root_before
    /\ ~pa_verbose => root_level = root_before

-----------------------------------------------------------------------------
(* Specifications                                                          *)

InitUnit == gu_Init /\ en_Off /\ sp_Off /\ sv_Off /\ gv_Off /\ pa_Off
SpecUnit == InitUnit /\ [][gu_Next]_vars

InitEntity == en_Init /\ gu_Off /\ sp_Off /\ sv_Off /\ gv_Off /\ pa_Off
SpecEntity == InitEntity /\ [][en_Next]_vars

InitSpell == sp_Init /\ gu_Off /\ en_Off /\ sv_Off /\ gv_Off /\ pa_Off
SpecSpell == InitSpell /\ [][sp_Next]_vars

InitSubstitute == sv_Init /\ gu_Off /\ en_Off /\ sp_Off /\ gv_Off /\ pa_Off
SpecSubstitute == InitSubstitute /\ [][sv_Next]_vars

InitValues == gv_Init /\ gu_Off /\ en_Off /\ sp_Off /\ sv_Off /\ pa_Off
SpecValues == InitValues /\ [][gv_Next]_vars

Init == pa_Init /\ gu_Off /\ en_Off /\ sp_Off /\ sv_Off /\ gv_Off
Spec == Init /\ [][Next]_vars

====
